---- MODULE Spec2Model ----
(***************************************************************************)
(* Character state machine of ninjas-vs-pirates (src/main.rs).             *)
(*                                                                         *)
(* Three Update systems work on the characters:                            *)
(*   process_input      ticks the action lock and applies the key intent   *)
(*   process_animation  dispatches a clip on a state edge and arms a lock  *)
(*   process_movement   integrates the position and clamps it to the arena *)
(* main() registers them in one tuple without .chain(), .before() or       *)
(* .after(), so the engine's schedule holds no ordering constraint between *)
(* them: a frame runs each of them once, one at a time (their accesses to  *)
(* CharacterState conflict), in an order the scheduler picks.              *)
(*                                                                         *)
(* Units: time in fifths of a second (0.6s = 3, 1.0s = 5); position along  *)
(* the movement axis in tenths (4.0 = 40), so a speed of 4.0 is 8 position *)
(* units per time unit and a speed of -2.5 is -5.                          *)
(*                                                                         *)
(* Spec       the whole frame loop with the three systems, under a         *)
(*            keyboard on which at most MaxKeysDown keys are involved per  *)
(*            frame.                                                       *)
(* SpecState  the two systems that write CharacterState, under every       *)
(*            keyboard; process_movement only reads player_state and       *)
(*            writes Transform, which neither of the two reads.            *)
(***************************************************************************)
EXTENDS Integers, FiniteSets, Sequences, TLC

\* largest frame delta the clock hands out, in time units
MaxDelta == 2
\* keys involved (held or just pressed) in one frame under Spec
MaxKeysDown == 1

LEFT_KEY == "A"
RIGHT_KEY == "D"
PUNCH_KEY == "P"
KICK_KEY == "K"
\* 4.0 and -2.5 per second, in position units per time unit
RUN_FORWARD_SPEED == 8
RUN_BACKWARDS_SPEED == -5
\* Timer::from_seconds(0.6, ..) and Timer::from_seconds(1.0, ..)
PUNCH_SECONDS == 3
KICK_SECONDS == 5
\* clamp(-4.0, 4.0)
ARENA_MIN == -40
ARENA_MAX == 40
\* Vec3::new(-3.0, 0, 0) and Vec3::new(3.0, 0, 0)
NINJA_START == -30
PIRATE_START == 30

Keys == {LEFT_KEY, RIGHT_KEY, PUNCH_KEY, KICK_KEY}
AnimationState == {"Idle", "Punching", "Kicking", "Running", "RunningBackwards"}
Characters == {"Ninja", "Pirate"}
\* entities carrying the Player / Enemy marker component
Player == {"Ninja"}
Enemy == {"Pirate"}
Systems == {"process_input", "process_animation", "process_movement"}
\* the systems that write CharacterState
StateSystems == {"process_input", "process_animation"}
Deltas == 1..MaxDelta

VARIABLES
    state,          \* CharacterState component of each character
    translation,    \* Transform.translation.x of each character
    pressed,        \* Input<KeyCode>: keys currently held
    just_pressed,   \* Input<KeyCode>: keys pressed since the last frame
    delta,          \* Time::delta() of the running frame
    loaded,         \* whether the character's AnimationPlayer entity exists
    ran,            \* systems that have already run in this frame
    playing,        \* clip the character's AnimationPlayer plays ("none": no player)
    played,         \* play_with_transition command of this frame, per character
    audio,          \* AudioBundles spawned in this frame, per character
    frame_start     \* CharacterState components as they were when the frame began

vars == <<state, translation, pressed, just_pressed, delta, loaded, ran,
          playing, played, audio, frame_start>>

\* Option<T> is a sequence of length 0 (None) or 1 (Some)
None == <<>>
Some(x) == <<x>>
is_some(o) == Len(o) = 1
is_none(o) == Len(o) = 0
unwrap(o) == o[1]

Min(a, b) == IF a < b THEN a ELSE b
Max(a, b) == IF a > b THEN a ELSE b

\* a timer that is created with one time unit already elapsed
Timer_from_seconds_ticked(d) == [duration |-> d, elapsed |-> 1]
\* Timer::from_seconds(d, TimerMode::Once)
Timer_from_seconds(d) == [duration |-> d, elapsed |-> 0]
\* a tick that does not advance the timer
Timer_tick_frozen(t, d) == t
\* Timer::tick for a TimerMode::Once timer: elapsed saturates at duration
Timer_tick(t, d) == [t EXCEPT !.elapsed = Min(t.elapsed + d, t.duration)]
Timer_finished(t) == t.elapsed >= t.duration

\* CharacterState::default()
CharacterState_default ==
    [player_state |-> "Idle", old_player_state |-> "Idle",
     current_animation_timer |-> None]

\* update_player_state with the two assignments in the wrong order
update_player_state_new_first(s, new_state) ==
    [s EXCEPT !.old_player_state = new_state,
              !.player_state = new_state]

update_player_state(s, new_state) ==
    [s EXCEPT !.old_player_state = s.player_state,
              !.player_state = new_state]

\* the chain with the direction keys tested before punch and kick
new_state_of_move_first(jp, pr) ==
    IF RIGHT_KEY \in pr /\ LEFT_KEY \notin pr THEN "Running"
    ELSE IF LEFT_KEY \in pr /\ RIGHT_KEY \notin pr THEN "RunningBackwards"
    ELSE IF PUNCH_KEY \in jp THEN "Punching"
    ELSE IF KICK_KEY \in jp THEN "Kicking"
    ELSE "Idle"

\* the chain without the tests that the opposite direction key is up
new_state_of_no_cancel(jp, pr) ==
    IF PUNCH_KEY \in jp THEN "Punching"
    ELSE IF KICK_KEY \in jp THEN "Kicking"
    ELSE IF RIGHT_KEY \in pr THEN "Running"
    ELSE IF LEFT_KEY \in pr THEN "RunningBackwards"
    ELSE "Idle"

\* the if / else-if chain of process_input over the key facts
new_state_of(jp, pr) ==
    IF PUNCH_KEY \in jp THEN "Punching"
    ELSE IF KICK_KEY \in jp THEN "Kicking"
    ELSE IF RIGHT_KEY \in pr /\ LEFT_KEY \notin pr THEN "Running"
    ELSE IF LEFT_KEY \in pr /\ RIGHT_KEY \notin pr THEN "RunningBackwards"
    ELSE "Idle"

\* the loop body without the continue of the locked branch
input_player_no_continue(s, d, jp, pr) ==
    LET ticked == Timer_tick(unwrap(s.current_animation_timer), d) IN
    IF is_some(s.current_animation_timer) /\ ~Timer_finished(ticked)
    THEN update_player_state([s EXCEPT !.current_animation_timer = Some(ticked)],
                             new_state_of(jp, pr))
    ELSE update_player_state([s EXCEPT !.current_animation_timer = None],
                             new_state_of(jp, pr))

\* process_input that clears a finished lock but leaves the intent of that
\* frame to the next one
input_player_stall(s, d, jp, pr) ==
    LET ticked == Timer_tick(unwrap(s.current_animation_timer), d) IN
    IF is_some(s.current_animation_timer)
    THEN IF Timer_finished(ticked)
         THEN [s EXCEPT !.current_animation_timer = None]
         ELSE [s EXCEPT !.current_animation_timer = Some(ticked)]
    ELSE update_player_state(s, new_state_of(jp, pr))

\* body of the loop of process_input for one Player
input_player(s, d, jp, pr) ==
    LET ticked == Timer_tick(unwrap(s.current_animation_timer), d) IN
    IF is_some(s.current_animation_timer) /\ ~Timer_finished(ticked)
    THEN [s EXCEPT !.current_animation_timer = Some(ticked)]
    ELSE update_player_state([s EXCEPT !.current_animation_timer = None],
                             new_state_of(jp, pr))

Init ==
    /\ state = [c \in Characters |-> CharacterState_default]
    /\ translation = [c \in Characters |->
                        IF c \in Player THEN NINJA_START ELSE PIRATE_START]
    /\ pressed = {}
    /\ just_pressed = {}
    /\ delta = 0
    /\ loaded = [c \in Characters |-> FALSE]
    /\ ran = {}
    /\ playing = [c \in Characters |-> "none"]
    /\ played = [c \in Characters |-> None]
    /\ audio = [c \in Characters |-> <<>>]
    /\ frame_start = [c \in Characters |-> CharacterState_default]

\* each system of the schedule runs once per frame
Runnable(sys) == sys \notin ran

\* process_input whose query lacks the With<Player> filter
process_input_all ==
    /\ Runnable("process_input")
    /\ ran' = ran \cup {"process_input"}
    /\ state' = [c \in Characters |->
                    input_player(state[c], delta, just_pressed, pressed)]
    /\ UNCHANGED <<translation, pressed, just_pressed, delta, loaded,
                   playing, played, audio, frame_start>>

process_input ==
    /\ Runnable("process_input")
    /\ ran' = ran \cup {"process_input"}
    /\ state' = [c \in Characters |->
                    IF c \in Player
                    THEN input_player(state[c], delta, just_pressed, pressed)
                    ELSE state[c]]
    /\ UNCHANGED <<translation, pressed, just_pressed, delta, loaded,
                   playing, played, audio, frame_start>>

\* Duration::from_secs_f32(0.2), in time units
transition_duration == 1

\* play_with_transition(clip, transition_duration) followed by .repeat() or
\* .set_speed(1.5); speed in tenths (10 = the default 1.0)
PlayCommand(clip, repeat, speed) ==
    [clip |-> clip, repeat |-> repeat, speed |-> speed,
     transition |-> transition_duration]

\* the guard of process_animation that skips a character
animation_skips(s) ==
    \/ s.player_state = s.old_player_state
    \/ is_some(s.current_animation_timer)

\* the match of process_animation: command sent to the AnimationPlayer
animation_command(s) ==
    CASE s.player_state = "Idle" -> PlayCommand("idle", TRUE, 10)
      [] s.player_state = "Punching" -> PlayCommand("punch", FALSE, 15)
      [] s.player_state = "Kicking" -> PlayCommand("kick", FALSE, 15)
      [] s.player_state = "Running" -> PlayCommand("run_forwards", TRUE, 10)
      [] s.player_state = "RunningBackwards" ->
            PlayCommand("walk_backwards", TRUE, 10)

\* the match with a lock armed in every arm
animation_timer_every_arm(s) ==
    CASE s.player_state = "Kicking" -> Some(Timer_from_seconds(KICK_SECONDS))
      [] OTHER -> Some(Timer_from_seconds(PUNCH_SECONDS))

\* the match of process_animation: lock written to current_animation_timer
animation_timer(s) ==
    CASE s.player_state = "Punching" -> Some(Timer_from_seconds(PUNCH_SECONDS))
      [] s.player_state = "Kicking" -> Some(Timer_from_seconds(KICK_SECONDS))
      [] OTHER -> s.current_animation_timer

\* the match of process_animation: AudioBundles spawned
animation_audio(s) ==
    CASE s.player_state = "Punching" -> <<"punch.ogg">>
      [] s.player_state = "Kicking" -> <<"kick.ogg">>
      [] OTHER -> <<>>

\* the query of process_animation only yields characters whose
\* AnimationPlayer entity exists
animated(c) == loaded[c] /\ ~animation_skips(state[c])

\* process_animation that also acknowledges the change it dispatched by
\* writing old_player_state
process_animation_ack ==
    /\ Runnable("process_animation")
    /\ ran' = ran \cup {"process_animation"}
    /\ state' = [c \in Characters |->
                    IF animated(c)
                    THEN [state[c] EXCEPT !.current_animation_timer =
                                              animation_timer(state[c]),
                                          !.old_player_state =
                                              state[c].player_state]
                    ELSE state[c]]
    /\ played' = [c \in Characters |->
                    IF animated(c) THEN Some(animation_command(state[c]))
                    ELSE played[c]]
    /\ playing' = [c \in Characters |->
                    IF animated(c) THEN animation_command(state[c]).clip
                    ELSE playing[c]]
    /\ audio' = [c \in Characters |->
                    IF animated(c) THEN audio[c] \o animation_audio(state[c])
                    ELSE audio[c]]
    /\ UNCHANGED <<translation, pressed, just_pressed, delta, loaded,
                   frame_start>>

process_animation ==
    /\ Runnable("process_animation")
    /\ ran' = ran \cup {"process_animation"}
    /\ state' = [c \in Characters |->
                    IF animated(c)
                    THEN [state[c] EXCEPT !.current_animation_timer =
                                              animation_timer(state[c])]
                    ELSE state[c]]
    /\ played' = [c \in Characters |->
                    IF animated(c) THEN Some(animation_command(state[c]))
                    ELSE played[c]]
    /\ playing' = [c \in Characters |->
                    IF animated(c) THEN animation_command(state[c]).clip
                    ELSE playing[c]]
    /\ audio' = [c \in Characters |->
                    IF animated(c) THEN audio[c] \o animation_audio(state[c])
                    ELSE audio[c]]
    /\ UNCHANGED <<translation, pressed, just_pressed, delta, loaded,
                   frame_start>>

clamp(x, lo, hi) == Max(lo, Min(x, hi))

\* the displacement with the backward branch at the forward speed
displacement_same_speed(s, d) ==
    IF s.player_state = "Running" THEN RUN_FORWARD_SPEED * d
    ELSE IF s.player_state = "RunningBackwards" THEN (0 - RUN_FORWARD_SPEED) * d
    ELSE 0

\* the displacement read from old_player_state instead of player_state
displacement_by_old_state(s, d) ==
    IF s.old_player_state = "Running" THEN RUN_FORWARD_SPEED * d
    ELSE IF s.old_player_state = "RunningBackwards"
         THEN RUN_BACKWARDS_SPEED * d
    ELSE 0

\* displacement added to translation.x before the clamp
displacement(s, d) ==
    IF s.player_state = "Running" THEN RUN_FORWARD_SPEED * d
    ELSE IF s.player_state = "RunningBackwards" THEN RUN_BACKWARDS_SPEED * d
    ELSE 0

\* the loop body without the clamp
move_character_unclamped(x, s, d) == x + displacement(s, d)

\* body of the loop of process_movement for one character
move_character(x, s, d) == clamp(x + displacement(s, d), ARENA_MIN, ARENA_MAX)

process_movement ==
    /\ Runnable("process_movement")
    /\ ran' = ran \cup {"process_movement"}
    /\ translation' = [c \in Characters |->
                          move_character(translation[c], state[c], delta)]
    /\ UNCHANGED <<state, pressed, just_pressed, delta, loaded, playing,
                   played, audio, frame_start>>

\* Input::press inserts into just_pressed only a key that was not held, and
\* just_pressed is cleared before the frame's key events are applied; a key
\* can be pressed and released within one frame.  Only the just_pressed
\* facts of the punch and kick keys are ever queried.  n bounds the keys
\* involved in the frame.
KeyFacts(held, n) ==
    {kf \in [pressed : SUBSET Keys, just_pressed : SUBSET {PUNCH_KEY, KICK_KEY}] :
        /\ Cardinality(kf.pressed \cup kf.just_pressed) <= n
        /\ \A k \in {PUNCH_KEY, KICK_KEY} :
              (k \in kf.pressed /\ k \notin held) => k \in kf.just_pressed}

\* the engine starts the next frame of a schedule of the systems S: the
\* clock and the keyboard are sampled.  Scenes that finished loading since
\* the last frame have been spawned: the AnimationPlayer entity of such a
\* character exists from this frame on, and setup_scene_once_loaded starts
\* the idle clip on it.
BeginFrame(S, n) ==
    /\ ran = S
    /\ ran' = {}
    /\ \E d \in Deltas : delta' = d
    /\ \E kf \in KeyFacts(pressed, n) :
          /\ pressed' = kf.pressed
          /\ just_pressed' = kf.just_pressed
    /\ \E spawned \in SUBSET {c \in Characters : ~loaded[c]} :
          /\ loaded' = [c \in Characters |-> loaded[c] \/ c \in spawned]
          /\ playing' = [c \in Characters |->
                            IF c \in spawned THEN "idle" ELSE playing[c]]
    /\ played' = [c \in Characters |-> None]
    /\ audio' = [c \in Characters |-> <<>>]
    /\ frame_start' = state
    /\ UNCHANGED <<state, translation>>

Next ==
    \/ BeginFrame(Systems, MaxKeysDown)
    \/ process_input
    \/ process_animation
    \/ process_movement

Spec == Init /\ [][Next]_vars

NextState ==
    \/ BeginFrame(StateSystems, Cardinality(Keys))
    \/ process_input
    \/ process_animation

SpecState == Init /\ [][NextState]_vars

\* The two systems that write CharacterState under the schedule of App::run:
\* the Update schedule runs frame after frame, and in every frame each
\* system it holds runs once.  The keyboard is bounded by MaxKeysDown.
NextStateLive ==
    \/ BeginFrame(StateSystems, MaxKeysDown)
    \/ process_input
    \/ process_animation

SpecStateLive ==
    /\ Init
    /\ [][NextStateLive]_vars
    /\ WF_vars(BeginFrame(StateSystems, MaxKeysDown))
    /\ WF_vars(process_input)
    /\ WF_vars(process_animation)

(***************************************************************************)
(* Properties                                                              *)
(***************************************************************************)

Attack == {"Punching", "Kicking"}
timer_of(c) == state[c].current_animation_timer
\* both systems that write CharacterState have run in this frame
FrameEnd == StateSystems \subseteq ran
\* the lock of s is set and the delta d does not finish it
LockHolds(s, d) ==
    /\ is_some(s.current_animation_timer)
    /\ unwrap(s.current_animation_timer).elapsed + d
          < unwrap(s.current_animation_timer).duration
\* the lock of s is set and the delta d finishes it
LockExpires(s, d) ==
    /\ is_some(s.current_animation_timer)
    /\ unwrap(s.current_animation_timer).elapsed + d
          >= unwrap(s.current_animation_timer).duration

\* C1: whenever process_input runs while the Player's lock is set and this
\* frame's delta does not finish it, player_state and old_player_state are
\* left as they were and the lock stays set, whatever keys are down.
C1_LockedInputIgnored ==
    [][\A p \in Player :
          (process_input /\ LockHolds(state[p], delta))
          => /\ state'[p].player_state = state[p].player_state
             /\ state'[p].old_player_state = state[p].old_player_state
             /\ is_some(state'[p].current_animation_timer)]_vars

\* process_input has ticked a Kicking lock that stays set, in a frame where
\* punch and kick were just pressed and both direction keys are held
C1_Witness ==
    \E p \in Player :
        /\ "process_input" \in ran
        /\ LockHolds(frame_start[p], delta)
        /\ is_some(timer_of(p))
        /\ unwrap(timer_of(p)).elapsed > 0
        /\ state[p].player_state = "Kicking"
        /\ just_pressed = {PUNCH_KEY, KICK_KEY}
        /\ {LEFT_KEY, RIGHT_KEY} \subseteq pressed

\* C2: with the animation handle resolved, a frame issues a play-clip
\* command for the Player exactly when player_state changed in that frame:
\* on the frame a state is entered, and on no frame that sustains it.
C2_DispatchOncePerChange ==
    \A p \in Player :
        (FrameEnd /\ loaded[p])
        => (is_some(played[p])
              <=> state[p].player_state # frame_start[p].player_state)

\* C3: with the animation handle resolved, a Punch (Kick) just pressed
\* while the Player is Idle and unlocked makes that frame end in Punching
\* (Kicking) with the punch (kick) clip dispatched non-looping at 1.5x
\* speed with the 0.2s blend, one punch (kick) sound and a fresh 0.6s
\* (1.0s) lock; and a frame through which the lock stays set issues no
\* dispatch and no sound.
C3_AttackDispatchedOnce ==
    \A p \in Player :
        (FrameEnd /\ loaded[p]) =>
        /\ (/\ frame_start[p].player_state = "Idle"
            /\ is_none(frame_start[p].current_animation_timer)
            /\ PUNCH_KEY \in just_pressed)
           => /\ state[p].player_state = "Punching"
              /\ played[p] = Some([clip |-> "punch", repeat |-> FALSE,
                                   speed |-> 15, transition |-> 1])
              /\ audio[p] = <<"punch.ogg">>
              /\ timer_of(p) = Some([duration |-> 3, elapsed |-> 0])
        /\ (/\ frame_start[p].player_state = "Idle"
            /\ is_none(frame_start[p].current_animation_timer)
            /\ PUNCH_KEY \notin just_pressed
            /\ KICK_KEY \in just_pressed)
           => /\ state[p].player_state = "Kicking"
              /\ played[p] = Some([clip |-> "kick", repeat |-> FALSE,
                                   speed |-> 15, transition |-> 1])
              /\ audio[p] = <<"kick.ogg">>
              /\ timer_of(p) = Some([duration |-> 5, elapsed |-> 0])
        /\ (LockHolds(frame_start[p], delta) /\ is_some(timer_of(p)))
           => /\ is_none(played[p])
              /\ audio[p] = <<>>

\* C4: a character whose lock is set is Punching or Kicking; a lock is
\* only ever armed on a character that is Punching or Kicking; and no step
\* that leaves the lock set changes player_state.
C4_LockImpliesAttack ==
    /\ [](\A c \in Characters :
            is_some(timer_of(c)) => state[c].player_state \in Attack)
    /\ [][\A c \in Characters :
            /\ (is_none(timer_of(c)) /\ is_some(state'[c].current_animation_timer))
               => /\ state[c].player_state \in Attack
                  /\ state'[c].player_state = state[c].player_state
            /\ (is_some(timer_of(c)) /\ is_some(state'[c].current_animation_timer))
               => state'[c].player_state = state[c].player_state]_vars

\* process_movement has run on a Punching Player whose lock has been ticked
\* while the right key is held
C4_Witness ==
    \E p \in Player :
        /\ ran = Systems
        /\ is_some(timer_of(p))
        /\ unwrap(timer_of(p)).elapsed > 0
        /\ state[p].player_state = "Punching"
        /\ RIGHT_KEY \in pressed

\* C5: once Kicking has been entered from Idle and its lock armed, every
\* frame keeps the Player Kicking with no dispatch until the lock has run
\* its 1.0s; the frame on which the lock's elapsed time reaches 1.0s with
\* no key down ends in Idle with the idle clip dispatched.
C5_KickRunsItsCourse ==
    \A p \in Player :
        (/\ FrameEnd
         /\ frame_start[p].player_state = "Kicking"
         /\ frame_start[p].old_player_state = "Idle"
         /\ is_some(frame_start[p].current_animation_timer))
        => /\ LockHolds(frame_start[p], delta)
              => /\ state[p].player_state = "Kicking"
                 /\ is_none(played[p])
           /\ (/\ LockExpires(frame_start[p], delta)
               /\ pressed = {}
               /\ just_pressed = {})
              => /\ state[p].player_state = "Idle"
                 /\ played[p] = Some([clip |-> "idle", repeat |-> TRUE,
                                      speed |-> 10, transition |-> 1])

\* the state the key facts of the frame ask for
Requested ==
    IF PUNCH_KEY \in just_pressed THEN "Punching"
    ELSE IF KICK_KEY \in just_pressed THEN "Kicking"
    ELSE IF RIGHT_KEY \in pressed /\ LEFT_KEY \notin pressed THEN "Running"
    ELSE IF LEFT_KEY \in pressed /\ RIGHT_KEY \notin pressed
         THEN "RunningBackwards"
    ELSE "Idle"

\* C6: whenever process_input runs while the Player is unlocked,
\* old_player_state becomes the player_state from before the step and
\* player_state becomes the state the frame's key facts ask for, whatever
\* the state was; with no key down that is Idle.
C6_UnlockedInputApplied ==
    [][\A p \in Player :
          (process_input /\ is_none(timer_of(p)))
          => /\ state'[p].old_player_state = state[p].player_state
             /\ state'[p].player_state = Requested
             /\ (pressed = {} /\ just_pressed = {})
                => state'[p].player_state = "Idle"]_vars

\* process_input took an unlocked Player from Punching to Idle with no key
\* down
C6_Witness ==
    \E p \in Player :
        /\ "process_input" \in ran
        /\ is_none(frame_start[p].current_animation_timer)
        /\ frame_start[p].player_state = "Punching"
        /\ state[p].old_player_state = "Punching"
        /\ state[p].player_state = "Idle"
        /\ is_none(timer_of(p))
        /\ pressed = {}
        /\ just_pressed = {}

\* C7 as stated: whenever process_input runs while the Player is unlocked
\* and the punch key and the right key are both held, player_state becomes
\* Punching.
C7_HeldPunchWins ==
    [][\A p \in Player :
          (/\ process_input
           /\ is_none(timer_of(p))
           /\ PUNCH_KEY \in pressed
           /\ RIGHT_KEY \in pressed)
          => state'[p].player_state = "Punching"]_vars

\* C7 as amended: whenever process_input runs while the Player is unlocked,
\* the punch key was just pressed in this frame and the right key is held,
\* player_state becomes Punching, never Running.
C7_JustPressedPunchWins ==
    [][\A p \in Player :
          (/\ process_input
           /\ is_none(timer_of(p))
           /\ PUNCH_KEY \in just_pressed
           /\ RIGHT_KEY \in pressed)
          => state'[p].player_state = "Punching"]_vars

\* process_input made an unlocked Player Punching in a frame where punch
\* was just pressed and only the right direction key is held
C7_Witness ==
    \E p \in Player :
        /\ "process_input" \in ran
        /\ "process_animation" \notin ran
        /\ is_none(frame_start[p].current_animation_timer)
        /\ PUNCH_KEY \in just_pressed
        /\ RIGHT_KEY \in pressed
        /\ LEFT_KEY \notin pressed
        /\ state[p].player_state = "Punching"

\* C8 as stated: whenever process_input runs while the Player is unlocked,
\* a requested Punch gives Punching even with Kick requested, and the right
\* and left keys held together with neither Punch nor Kick requested give
\* Running.
C8_ForwardBeatsBackward ==
    [][\A p \in Player :
          (process_input /\ is_none(timer_of(p)))
          => /\ PUNCH_KEY \in just_pressed
                => state'[p].player_state = "Punching"
             /\ (/\ just_pressed = {}
                 /\ {LEFT_KEY, RIGHT_KEY} \subseteq pressed)
                => state'[p].player_state = "Running"]_vars

\* C8 as amended: Punch beats Kick, Kick beats the direction keys, the
\* right key alone gives Running, the left key alone RunningBackwards, and
\* the right and left keys held together cancel to Idle.
C8_PrecedenceWithCancel ==
    [][\A p \in Player :
          (process_input /\ is_none(timer_of(p)))
          => /\ PUNCH_KEY \in just_pressed
                => state'[p].player_state = "Punching"
             /\ (PUNCH_KEY \notin just_pressed /\ KICK_KEY \in just_pressed)
                => state'[p].player_state = "Kicking"
             /\ (just_pressed = {} /\ RIGHT_KEY \in pressed
                   /\ LEFT_KEY \notin pressed)
                => state'[p].player_state = "Running"
             /\ (just_pressed = {} /\ LEFT_KEY \in pressed
                   /\ RIGHT_KEY \notin pressed)
                => state'[p].player_state = "RunningBackwards"
             /\ (just_pressed = {} /\ {LEFT_KEY, RIGHT_KEY} \subseteq pressed)
                => state'[p].player_state = "Idle"]_vars

\* process_input left an unlocked Player Idle in a frame where the right
\* and left keys are both held and neither punch nor kick was pressed
C8_Witness ==
    \E p \in Player :
        /\ "process_input" \in ran
        /\ "process_animation" \notin ran
        /\ is_none(frame_start[p].current_animation_timer)
        /\ frame_start[p].player_state = "Running"
        /\ just_pressed = {}
        /\ {LEFT_KEY, RIGHT_KEY} \subseteq pressed
        /\ state[p].player_state = "Idle"

\* C9: in every frame process_animation runs only after process_input and
\* process_movement only after process_animation.
C9_SystemsRunInOrder ==
    /\ "process_animation" \in ran => "process_input" \in ran
    /\ "process_movement" \in ran => "process_animation" \in ran

\* the clip process_animation selects for a player_state
clip_of(st) ==
    CASE st = "Idle" -> "idle"
      [] st = "Punching" -> "punch"
      [] st = "Kicking" -> "kick"
      [] st = "Running" -> "run_forwards"
      [] st = "RunningBackwards" -> "walk_backwards"

\* C10: a transition made while the animation handle was unresolved is
\* dispatched once the handle is there: when process_animation runs after
\* process_input for a character whose handle is resolved and that does
\* not yet play the clip of its player_state, it dispatches that clip, and
\* for Punching and Kicking arms the lock and emits the sound.
C10_DispatchNeverLost ==
    [][\A c \in Characters :
          (/\ process_animation
           /\ "process_input" \in ran
           /\ loaded[c]
           /\ playing[c] # clip_of(state[c].player_state))
          => /\ is_some(played'[c])
             /\ playing'[c] = clip_of(state'[c].player_state)
             /\ state'[c].player_state \in Attack
                => /\ is_some(state'[c].current_animation_timer)
                   /\ audio'[c] # <<>>]_vars

\* C11: the position of every character along the movement axis lies in
\* the arena interval [-4.0, 4.0], before and after every step, and
\* clamping it again changes nothing.
C11_PositionInArena ==
    \A c \in Characters :
        /\ translation[c] >= ARENA_MIN
        /\ translation[c] <= ARENA_MAX
        /\ clamp(translation[c], ARENA_MIN, ARENA_MAX) = translation[c]

\* process_movement has run on a Running Player that stands on the upper
\* arena bound
C11_Witness ==
    \E p \in Player :
        /\ ran = Systems
        /\ state[p].player_state = "Running"
        /\ frame_start[p].player_state = "Running"
        /\ translation[p] = ARENA_MAX

\* the position that process_movement is to produce from x for a character
\* in state st over the delta d, before the clamp
Unclamped(x, st, d) ==
    CASE st = "Running" -> x + 8 * d
      [] st = "RunningBackwards" -> x - 5 * d
      [] OTHER -> x

\* C12: process_movement moves a character by +4.0 * delta when it is
\* Running, by -2.5 * delta when RunningBackwards and not at all when Idle,
\* Punching or Kicking; the result is then clamped to the arena, so inside
\* the arena the move is exactly that displacement.
C12_DisplacementPerState ==
    [][process_movement =>
          \A c \in Characters :
             LET want == Unclamped(translation[c], state[c].player_state, delta)
             IN /\ (want >= ARENA_MIN /\ want <= ARENA_MAX)
                   => translation'[c] = want
                /\ want > ARENA_MAX => translation'[c] = ARENA_MAX
                /\ want < ARENA_MIN => translation'[c] = ARENA_MIN
                /\ state[c].player_state \in {"Idle", "Punching", "Kicking"}
                   => translation'[c] = translation[c]]_vars

\* process_movement has moved a RunningBackwards Player by one time unit's
\* backward displacement from its start position
C12_Witness ==
    \E p \in Player :
        /\ ran = Systems
        /\ delta = 1
        /\ state[p].player_state = "RunningBackwards"
        /\ frame_start[p].player_state = "Idle"
        /\ translation[p] = NINJA_START - 5

\* C13: when process_input runs on the frame whose delta finishes the
\* Player's lock, the lock is cleared and that same step sets player_state
\* to what the frame's key facts ask for and old_player_state to the state
\* the lock belonged to; with no key down a Punching Player is Idle after
\* that very step, and the next process_input with no key down leaves it
\* Idle with old_player_state Idle, so the change from Punching to Idle
\* happens once.
C13_ExpiryAppliesIntent ==
    [][process_input =>
          \A p \in Player :
             /\ LockExpires(state[p], delta)
                => /\ is_none(state'[p].current_animation_timer)
                   /\ state'[p].player_state = Requested
                   /\ state'[p].old_player_state = state[p].player_state
                   /\ (pressed = {} /\ just_pressed = {})
                      => state'[p].player_state = "Idle"
             /\ ( /\ is_none(timer_of(p))
                  /\ state[p].player_state = "Idle"
                  /\ pressed = {}
                  /\ just_pressed = {} )
                => /\ state'[p].player_state = "Idle"
                   /\ state'[p].old_player_state = "Idle"]_vars

\* process_input has run on the frame that finishes a punch lock with no key
\* down, and the Player is Idle with old_player_state Punching and no lock
C13_Witness ==
    \E p \in Player :
        /\ "process_input" \in ran
        /\ LockExpires(frame_start[p], delta)
        /\ unwrap(frame_start[p].current_animation_timer).duration
              = PUNCH_SECONDS
        /\ frame_start[p].player_state = "Punching"
        /\ state[p].player_state = "Idle"
        /\ state[p].old_player_state = "Punching"
        /\ is_none(timer_of(p))
        /\ pressed = {}
        /\ just_pressed = {}

\* C14: under the frame loop, a Player whose lock is set always reaches a
\* state in which the lock is None; and the only step that takes a lock
\* from set to None is a process_input step whose delta finishes the
\* countdown, whatever keys are down.
C14_LockEventuallyCleared ==
    /\ \A p \in Player : is_some(timer_of(p)) ~> is_none(timer_of(p))
    /\ [][\A p \in Player :
             (is_some(timer_of(p)) /\ is_none(state'[p].current_animation_timer))
             => (process_input /\ LockExpires(state[p], delta))]_vars

\* process_input has cleared a kick lock on the frame that finishes it; the
\* punch key pressed in an earlier frame of the lock had not cleared it
C14_Witness ==
    \E p \in Player :
        /\ "process_input" \in ran
        /\ LockExpires(frame_start[p], delta)
        /\ unwrap(frame_start[p].current_animation_timer).duration
              = KICK_SECONDS
        /\ unwrap(frame_start[p].current_animation_timer).elapsed
              = KICK_SECONDS - 1
        /\ PUNCH_KEY \in pressed
        /\ PUNCH_KEY \notin just_pressed
        /\ is_none(timer_of(p))

\* the frame started with the Player p Idle and unlocked, Kick and not Punch
\* was just pressed in it, both state systems have run and p holds a lock
KickArmedThisFrame(p) ==
    /\ FrameEnd
    /\ frame_start[p].player_state = "Idle"
    /\ is_none(frame_start[p].current_animation_timer)
    /\ KICK_KEY \in just_pressed
    /\ PUNCH_KEY \notin just_pressed
    /\ is_some(timer_of(p))

\* C15 as stated: at the end of the frame in which Kick is accepted from
\* Idle, the lock has the frame's delta already counted, so 1.0 s minus
\* delta remains.
C15_ArmingDeltaCounted ==
    \A p \in Player :
        KickArmedThisFrame(p)
        => /\ unwrap(timer_of(p)).duration = KICK_SECONDS
           /\ unwrap(timer_of(p)).elapsed = delta

\* C15 amended: at the end of the frame in which Kick is accepted from
\* Idle, a lock that is set is the kick lock with nothing counted yet, so
\* the whole 1.0 s remains; the delta of the arming frame is not part of
\* the countdown.
C15_ArmingDeltaNotCounted ==
    \A p \in Player :
        KickArmedThisFrame(p)
        => /\ state[p].player_state = "Kicking"
           /\ unwrap(timer_of(p)).duration = KICK_SECONDS
           /\ unwrap(timer_of(p)).elapsed = 0

\* Kick was accepted from Idle in this frame, process_animation has
\* dispatched the kick clip and armed the lock
C15_Witness ==
    \E p \in Player :
        /\ KickArmedThisFrame(p)
        /\ state[p].player_state = "Kicking"
        /\ state[p].old_player_state = "Idle"
        /\ playing[p] = "kick"
        /\ timer_of(p) = Some(Timer_from_seconds(KICK_SECONDS))

\* C16: a process_animation step and a process_movement step leave
\* player_state and old_player_state of every character as they were;
\* process_animation changes at most the lock of a CharacterState and
\* process_movement changes no CharacterState at all; any step that changes
\* player_state or old_player_state is a process_input step.
C16_OnlyInputChangesState ==
    [][/\ (process_animation \/ process_movement)
          => \A c \in Characters :
                /\ state'[c].player_state = state[c].player_state
                /\ state'[c].old_player_state = state[c].old_player_state
       /\ process_movement => state' = state
       /\ (\E c \in Characters :
              \/ state'[c].player_state # state[c].player_state
              \/ state'[c].old_player_state # state[c].old_player_state)
          => process_input]_vars

\* all three systems have run in a frame that took the Player from Idle to
\* Running: the run clip was dispatched, the Player has moved, and
\* old_player_state is still the Idle that process_input wrote
C16_Witness ==
    \E p \in Player :
        /\ ran = Systems
        /\ frame_start[p].player_state = "Idle"
        /\ frame_start[p].old_player_state = "Idle"
        /\ state[p].player_state = "Running"
        /\ state[p].old_player_state = "Idle"
        /\ played[p] = Some(PlayCommand("run_forwards", TRUE, 10))
        /\ translation[p] > NINJA_START

\* C17 as stated: with the animation handle resolved, when process_animation
\* runs after process_input in a frame at whose start an attacking Player
\* held its lock, then after the step an attacking Player holds a lock
\* again; in particular an attack accepted on the frame that finishes the
\* lock of the same attack is dispatched and locked.
C17_AttackAlwaysLocked ==
    [][\A p \in Player :
          ( /\ process_animation
            /\ "process_input" \in ran
            /\ loaded[p]
            /\ frame_start[p].player_state \in Attack
               => is_some(frame_start[p].current_animation_timer) )
          => ( state'[p].player_state \in Attack
               => is_some(state'[p].current_animation_timer) )]_vars

\* C18: in every reachable state, whatever keys are down, the Enemy has
\* player_state Idle, old_player_state Idle and no lock, process_animation
\* has sent it no play command and no sound, and it stands where
\* setup_pirate put it.
C18_EnemyNeverDriven ==
    \A e \in Enemy :
        /\ state[e].player_state = "Idle"
        /\ state[e].old_player_state = "Idle"
        /\ is_none(state[e].current_animation_timer)
        /\ played[e] = None
        /\ audio[e] = <<>>
        /\ translation[e] = PIRATE_START

\* all three systems have run with the right key held and both scenes
\* loaded: the Player runs and has moved, the Enemy is Idle on its idle clip
C18_Witness ==
    \E e \in Enemy : \E p \in Player :
        /\ ran = Systems
        /\ loaded[e]
        /\ loaded[p]
        /\ RIGHT_KEY \in pressed
        /\ state[p].player_state = "Running"
        /\ played[p] = Some(PlayCommand("run_forwards", TRUE, 10))
        /\ translation[p] > NINJA_START
        /\ state[e] = CharacterState_default
        /\ playing[e] = "idle"
        /\ translation[e] = PIRATE_START

\* C19: a process_movement step leaves the position of every character
\* whose lock is set where it was, whatever keys are held.
C19_LockedCharacterRooted ==
    [][process_movement =>
          \A c \in Characters :
             is_some(timer_of(c)) => translation'[c] = translation[c]]_vars

\* process_movement has run on a Player that held its lock through the
\* whole frame with the right key held, after it had been Running
C19_Witness ==
    \E p \in Player :
        /\ ran = Systems
        /\ is_some(frame_start[p].current_animation_timer)
        /\ is_some(timer_of(p))
        /\ state[p].player_state \in Attack
        /\ state[p].old_player_state = "Running"
        /\ RIGHT_KEY \in pressed
        /\ translation[p] # NINJA_START
====
